---- MODULE Spec2Model ----
(***************************************************************************)
(* State-machine model of calliope/backend/pyomo/model.py: generation of   *)
(* a Pyomo model from a labelled dataset (generate_model and its build_*   *)
(* steps), solve_model, load_results and get_result_array.                 *)
(*                                                                         *)
(* Attribute names are sequences of name fragments, so that the f-string   *)
(* f"calliope_{k}" is a concatenation and the test `"objective_" in name`  *)
(* is a search for a fragment.  Index tuples are functions from dimension  *)
(* name to label.                                                          *)
(***************************************************************************)
EXTENDS Integers, Sequences, FiniteSets, TLC

VARIABLES
    data_vars,      \* model_data.data_vars: ordered mapping name -> attrs
    time_dtype,     \* encoding of the time data of model_data
    run_config,     \* model_data.attrs["run_config"]
    imask_config,   \* model_data.attrs["imasks"] with the masks it yields
    backend_model,  \* attributes of the Pyomo ConcreteModel: name -> component
    pc,             \* position in generate_model / the calling sequence
    i,              \* loop index of build_params over data_vars
    raised,         \* the exception that left generate_model, if any
    solver_calls,   \* invocations opt.solve(...) made so far
    warnings,       \* warnings emitted through exceptions.warn
    critical_log,   \* logger.critical entries
    results_obj,    \* the solver's results object
    returned,       \* value returned by load_results
    results         \* Dataset returned by get_result_array

vars == <<data_vars, time_dtype, run_config, imask_config, backend_model, pc, i,
          raised, solver_calls, warnings, critical_log, results_obj, returned,
          results>>

(***************************************************************************)
(* Bounds                                                                  *)
(***************************************************************************)
MaxVars == 2        \* at most this many data variables in the input dataset

(***************************************************************************)
(* Names                                                                   *)
(***************************************************************************)
N(s) == <<s>>
Fmt_calliope(k) == <<"calliope_">> \o k                  \* f"calliope_{k}"
Fmt_objective(option) == <<"objective_">> \o option      \* "objective_" + option_name
Fmt_constraint(name) == name \o <<"_constraint">>        \* f"{name}_constraint"
Fmt_constraint_rule(name) == name \o <<"_constraint_rule">>
Fmt_expression_rule(name) == name \o <<"_expression_rule">>
Contains(name, frag) == \E j \in 1..Len(name) : name[j] = frag   \* frag in name

NaN == 0 - 1        \* undefined cell / Python None; solver values are >= 0

(***************************************************************************)
(* The coordinate space of the input dataset                               *)
(***************************************************************************)
Dims == <<"costs", "techs", "timesteps">>    \* model_data.dims.keys(), canonical order

Labels(d) ==
    CASE d = "costs" -> {"monetary"}
      [] d = "techs" -> {"A", "B"}
      [] d = "timesteps" -> {"t0", "t1"}

SeqToSet(s) == {s[j] : j \in 1..Len(s)}

\* every coordinate tuple over a set of dimensions
Tuples(dimset) == {t \in [dimset -> UNION {Labels(d) : d \in dimset}] :
                      \A d \in dimset : t[d] \in Labels(d)}

T2(tech, time) == [d \in {"techs", "timesteps"} |->
                      IF d = "techs" THEN tech ELSE time]
T1(tech) == [d \in {"techs"} |-> tech]

(***************************************************************************)
(* Components held by the model container                                  *)
(***************************************************************************)
Comp(ctype, indexed, index, rule, origin, values) ==
    [ctype |-> ctype, indexed |-> indexed, index |-> index, rule |-> rule,
     origin |-> origin, values |-> values]

NoValues(index) == [t \in index |-> NaN]

hasattr(model, name) == name \in DOMAIN model
setattr(model, name, comp) ==
    [n \in DOMAIN model \cup {name} |-> IF n = name THEN comp ELSE model[n]]

\* po.ConcreteModel(): a fresh block already has attributes of its own
ConcreteModel ==
    [n \in {N("name")} |-> Comp("attr", FALSE, {}, "none", "pyomo", NoValues({}))]

(***************************************************************************)
(* Inputs                                                                  *)
(***************************************************************************)
DataVarPool == {N("energy_cap_max"), N("name"), N("bigM"), N("storage_initial")}

\* attrs / dims of an input data variable
DataVar(k) ==
    [name |-> k,
     is_result |-> IF k = N("storage_initial") THEN 1 ELSE 0,
     operate_param |-> IF k = N("storage_initial") THEN 1 ELSE 0,
     dims |-> IF k = N("bigM") THEN <<>> ELSE <<"techs">>]

DataVarSeqs ==
    {s \in UNION {[1..n -> DataVarPool] : n \in 0..MaxVars} :
        \A a, b \in 1..Len(s) : a # b => s[a] # s[b]}

\* the rule functions the constraints package defines
constraints == {Fmt_constraint_rule(N("system_balance")),
                Fmt_expression_rule(N("cost_var"))}

VarFamily == N("energy_cap")
VarForeach == <<"timesteps", "techs">>    \* imasks.variables.energy_cap.foreach

VarMasks == {{}, {T2("A", "t0"), T2("A", "t1")},
             {T2("A", "t0"), T2("A", "t1"), T2("B", "t0"), T2("B", "t1")}}
ExprForeach == <<"techs">>
ExprMasks == {{T1("A")}, {T1("A"), T1("B")}}
ExprFamilySeqs == {<<N("cost_var")>>, <<N("cost_investment")>>,
                   <<N("cost_var"), N("cost_investment")>>}
ConFamilySeqs == {<<N("system_balance")>>,
                  <<N("system_balance"), N("reserve_margin")>>,
                  <<N("reserve_margin"), N("system_balance")>>}
ConMask == {T1("A")}

Init ==
    /\ data_vars \in {[j \in 1..Len(s) |-> DataVar(s[j])] : s \in DataVarSeqs}
    /\ time_dtype = "datetime64[ns]"
    /\ run_config \in [mode : {"plan", "operate"},
                       objective : {"minmax_cost_optimization", "undefined_objective"}]
    /\ imask_config \in [var_mask : VarMasks,
                         expressions : ExprFamilySeqs, expr_mask : ExprMasks,
                         constraints : ConFamilySeqs]
    /\ backend_model = ConcreteModel
    /\ pc = "start"
    /\ i = 1
    /\ raised = [kind |-> "none", step |-> "none"]
    /\ solver_calls = <<>>
    /\ warnings = <<>>
    /\ critical_log = <<>>
    /\ results_obj = [termination |-> <<"TerminationCondition", "none">>,
                      solution |-> <<>>, load |-> "none"]
    /\ returned = "none"
    /\ results = [vars |-> <<>>, time_dtype |-> "none"]

(***************************************************************************)
(* generate_model                                                          *)
(***************************************************************************)
\* generate_model with build_expressions called before build_variables
StepAfter_swapped(step) ==
    CASE step = "start" -> "build_imasks"
      [] step = "build_imasks" -> "build_sets"
      [] step = "build_sets" -> "build_params"
      [] step = "build_params" -> "build_expressions"
      [] step = "build_expressions" -> "build_variables"
      [] step = "build_variables" -> "build_constraints"
      [] step = "build_constraints" -> "build_objective"
      [] step = "build_objective" -> "finish"
      [] step = "finish" -> "generated"

\* the order of the build calls in generate_model
StepAfter(step) ==
    CASE step = "start" -> "build_imasks"
      [] step = "build_imasks" -> "build_sets"
      [] step = "build_sets" -> "build_params"
      [] step = "build_params" -> "build_variables"
      [] step = "build_variables" -> "build_expressions"
      [] step = "build_expressions" -> "build_constraints"
      [] step = "build_constraints" -> "build_objective"
      [] step = "build_objective" -> "finish"
      [] step = "finish" -> "generated"

Frame == UNCHANGED <<data_vars, run_config, imask_config, solver_calls, warnings,
                     critical_log, results_obj, returned, results>>

Raise(kind, step) ==
    /\ raised' = [kind |-> kind, step |-> step]
    /\ pc' = "raised"

\* backend_model = po.ConcreteModel(); convert_datetime(backend_model, model_data, int)
Start ==
    /\ pc = "start"
    /\ time_dtype' = "int"
    /\ pc' = StepAfter("start")
    /\ UNCHANGED <<backend_model, i, raised>>
    /\ Frame

\* imask_config = AttrDict.from_yaml_string(...); imasks = build_imasks(...):
\* the masks are read from the dataset, nothing is written
build_imasks ==
    /\ pc = "build_imasks"
    /\ pc' = StepAfter("build_imasks")
    /\ UNCHANGED <<backend_model, i, time_dtype, raised>>
    /\ Frame

RECURSIVE SetAll(_, _, _)
\* setattr(model, names[j], comps[j]) for j = 1..Len(names), in order
SetAll(model, names, comp) ==
    IF names = <<>> THEN model
    ELSE SetAll(setattr(model, Head(names), comp[Head(names)]), Tail(names), comp)

build_sets ==
    /\ pc = "build_sets"
    /\ backend_model' =
          SetAll(backend_model, [j \in 1..Len(Dims) |-> N(Dims[j])],
                 [n \in {N(Dims[j]) : j \in 1..Len(Dims)} |->
                     Comp("Set", FALSE, Tuples({n[1]}), "none", "coords",
                          NoValues(Tuples({n[1]})))])
    /\ pc' = StepAfter("build_sets")
    /\ i' = 1
    /\ UNCHANGED <<raised, time_dtype>>
    /\ Frame

\* lines 51-56: the parsed defaults and run configuration are kept on the model
build_params_begin ==
    /\ pc = "build_params"
    /\ backend_model' =
          setattr(setattr(backend_model, N("__calliope_defaults"),
                          Comp("attr", FALSE, {}, "none", "backend", NoValues({}))),
                  N("__calliope_run_config"),
                  Comp("attr", FALSE, {}, "none", "backend", NoValues({})))
    /\ i' = 1
    /\ pc' = "build_params_loop"
    /\ UNCHANGED <<raised, time_dtype>>
    /\ Frame

\* the condition of line 59-62
IsInput(v) ==
    \/ v.is_result = 0
    \/ (v.operate_param = 1 /\ run_config.mode = "operate")

\* the name a data variable named k is declared under (lines 72-77)
ParamName(model, k) == IF hasattr(model, k) THEN Fmt_calliope(k) ELSE k

\* po.Param(*dims, **_kwargs) for data variable v
InputParam(v) ==
    Comp("Param", Len(v.dims) > 0, Tuples(SeqToSet(v.dims)), "none", "input",
         NoValues(Tuples(SeqToSet(v.dims))))

\* one iteration of the loop of lines 58-78
build_params_loop ==
    /\ pc = "build_params_loop"
    /\ IF i <= Len(data_vars)
       THEN /\ backend_model' =
                  IF IsInput(data_vars[i])
                  THEN setattr(backend_model,
                               ParamName(backend_model, data_vars[i].name),
                               InputParam(data_vars[i]))
                  ELSE backend_model
            /\ i' = i + 1
            /\ UNCHANGED pc
       ELSE /\ pc' = "build_params_tail"
            /\ UNCHANGED <<backend_model, i>>
    /\ UNCHANGED <<raised, time_dtype>>
    /\ Frame

\* run_config["objective_options"]: the cost class weights and the sense
ObjectiveOptions == <<N("cost_class"), N("sense")>>

\* the component line 89 or line 96 attaches for an objective option
ObjectiveOption(option_name) ==
    IF option_name = N("cost_class")
    THEN Comp("Param", TRUE, Tuples({"costs"}), "none", "backend",
              NoValues(Tuples({"costs"})))
    ELSE Comp("attr", FALSE, {}, "none", "backend", NoValues({}))

\* backend_model.bigM = po.Param(initialize=..., mutable=True, ...)
BigM == Comp("Param", FALSE, {}, "none", "backend", NoValues({}))

\* lines 80-101: the objective options, then bigM
build_params_tail ==
    /\ pc = "build_params_tail"
    /\ backend_model' =
          setattr(SetAll(backend_model,
                         [j \in 1..Len(ObjectiveOptions) |->
                             Fmt_objective(ObjectiveOptions[j])],
                         [n \in {Fmt_objective(ObjectiveOptions[j]) :
                                    j \in 1..Len(ObjectiveOptions)} |->
                             ObjectiveOption(Tail(n))]),
                  N("bigM"), BigM)
    /\ pc' = StepAfter("build_params")
    /\ UNCHANGED <<i, raised, time_dtype>>
    /\ Frame

\* a variable declared over the whole product of its foreach dimensions
VarIndex_dense(imask) == Tuples(SeqToSet(VarForeach))

\* the index po.Var(imask, ...) is declared over
VarIndex(imask) == imask

build_variables ==
    /\ pc = "build_variables"
    /\ backend_model' =
          setattr(backend_model, VarFamily,
                  Comp("Var", TRUE, VarIndex(imask_config.var_mask), "none",
                       "backend", NoValues(VarIndex(imask_config.var_mask))))
    /\ pc' = StepAfter("build_variables")
    /\ UNCHANGED <<i, raised, time_dtype>>
    /\ Frame

\* build_expressions without the initialize=0.0 default
Expression_noinit(expression_name, imask) ==
    IF Fmt_expression_rule(expression_name) \in constraints
    THEN Comp("Expression", TRUE, imask, Fmt_expression_rule(expression_name),
              "backend", NoValues(imask))
    ELSE Comp("Expression", TRUE, imask, N("initialize"), "backend",
              NoValues(imask))

\* po.Expression(imask, **kwargs) of lines 135-143
Expression(expression_name, imask) ==
    IF Fmt_expression_rule(expression_name) \in constraints
    THEN Comp("Expression", TRUE, imask, Fmt_expression_rule(expression_name),
              "backend", NoValues(imask))
    ELSE Comp("Expression", TRUE, imask, N("initialize"), "backend",
              [t \in imask |-> 0])

build_expressions ==
    /\ pc = "build_expressions"
    /\ backend_model' =
          SetAll(backend_model, imask_config.expressions,
                 [n \in SeqToSet(imask_config.expressions) |->
                     Expression(n, imask_config.expr_mask)])
    /\ pc' = StepAfter("build_expressions")
    /\ UNCHANGED <<i, raised, time_dtype>>
    /\ Frame

\* getattr(constraints, f"{constraint_name}_constraint_rule") finds the rule
HasConstraintRule(constraint_name) ==
    Fmt_constraint_rule(constraint_name) \in constraints

\* the exception a failed getattr(constraints, ...) raises
MissingRuleError == "AttributeError"

RECURSIVE BuildConstraints(_, _)
\* the loop of build_constraints: the model it leaves and the error that ends it
BuildConstraints(model, names) ==
    IF names = <<>> THEN [model |-> model, error |-> "none"]
    ELSE IF ~HasConstraintRule(Head(names))
         THEN [model |-> model, error |-> MissingRuleError]
         ELSE BuildConstraints(
                  setattr(model, Fmt_constraint(Head(names)),
                          Comp("Constraint", TRUE, ConMask,
                               Fmt_constraint_rule(Head(names)), "backend",
                               NoValues(ConMask))),
                  Tail(names))

build_constraints ==
    /\ pc = "build_constraints"
    /\ LET r == BuildConstraints(backend_model, imask_config.constraints) IN
          /\ backend_model' = r.model
          /\ IF r.error = "none"
             THEN pc' = StepAfter("build_constraints") /\ UNCHANGED raised
             ELSE Raise(r.error, "build_constraints")
    /\ UNCHANGED <<i, time_dtype>>
    /\ Frame

\* the objective functions the objective module defines
objective == {"minmax_cost_optimization"}

\* the error of load_function for a name the objective module lacks
UnknownObjective == "ConfigurationError"

build_objective ==
    /\ pc = "build_objective"
    /\ IF run_config.objective \in objective
       THEN /\ backend_model' =
                  setattr(backend_model, N("obj"),
                          Comp("Objective", FALSE, {}, N(run_config.objective),
                               "backend", NoValues({})))
            /\ pc' = StepAfter("build_objective")
            /\ UNCHANGED raised
       ELSE /\ Raise(UnknownObjective, "build_objective")
            /\ UNCHANGED backend_model
    /\ UNCHANGED <<i, time_dtype>>
    /\ Frame

\* convert_datetime(backend_model, model_data, "datetime64[ns]"); return backend_model
Finish ==
    /\ pc = "finish"
    /\ time_dtype' = "datetime64[ns]"
    /\ pc' = StepAfter("finish")
    /\ UNCHANGED <<backend_model, i, raised>>
    /\ Frame

generate_model ==
    \/ Start
    \/ build_imasks
    \/ build_sets
    \/ build_params_begin
    \/ build_params_loop
    \/ build_params_tail
    \/ build_variables
    \/ build_expressions
    \/ build_constraints
    \/ build_objective
    \/ Finish

(***************************************************************************)
(* solve_model                                                             *)
(***************************************************************************)
Solvers == {"glpk", "cbc", "gurobi"}
Terminations == {<<"TerminationCondition", "optimal">>,
                 <<"TerminationCondition", "infeasible">>,
                 <<"TerminationCondition", "other">>}
SolverBases == {0, 4}

\* keyword arguments are sets of <<key, value>> pairs
Keys(kwargs) == {kv[1] : kv \in kwargs}
Del(kwargs, key) == {kv \in kwargs : kv[1] # key}
Update(kwargs, more) == {kv \in kwargs : kv[1] \notin Keys(more)} \cup more

CallerKwargs == {{}, {<<"warmstart", TRUE>>}}

\* the list of line 204 with cbc left out
NoWarmstartSolvers_glpk == {"glpk"}

\* the solvers line 204 lists as lacking warm start
NoWarmstartSolvers == {"glpk", "cbc"}

\* line 200-201: solve_kwargs after the save_logs update
WithSaveLogs(solve_kwargs, save_logs) ==
    IF save_logs
    THEN Update(solve_kwargs, {<<"symbolic_solver_labels", TRUE>>, <<"keepfiles", TRUE>>})
    ELSE solve_kwargs

\* the condition of line 204
DropsWarmstart(solver, solve_kwargs) ==
    "warmstart" \in Keys(solve_kwargs) /\ solver \in NoWarmstartSolvers

\* the value the solver reports for an active tuple
SolverValue(base, t) ==
    base + (IF t["techs"] = "B" THEN 2 ELSE 0) + (IF t["timesteps"] = "t1" THEN 1 ELSE 0)

solve_model ==
    /\ pc = "generated"
    /\ \E solver \in Solvers, passed \in CallerKwargs, save_logs \in BOOLEAN,
          termination \in Terminations, base \in SolverBases :
          LET kw == WithSaveLogs(passed, save_logs) IN
             /\ warnings' =
                   IF DropsWarmstart(solver, kw)
                   THEN Append(warnings, <<"does not suport warmstart", solver>>)
                   ELSE warnings
             /\ solver_calls' =
                   Append(solver_calls,
                          [solver |-> solver, passed |-> passed,
                           kwargs |-> IF DropsWarmstart(solver, kw)
                                      THEN Del(kw, "warmstart") ELSE kw])
             /\ results_obj' =
                   [termination |-> termination,
                    solution |-> [t \in backend_model[VarFamily].index |->
                                     SolverValue(base, t)],
                    load |-> "none"]
    /\ pc' = "solved"
    /\ UNCHANGED <<data_vars, time_dtype, run_config, imask_config, backend_model,
                   i, raised, critical_log, returned, results>>

(***************************************************************************)
(* load_results                                                            *)
(***************************************************************************)
\* str() of a termination condition
Str(termination) == termination[Len(termination)]

\* line 225 without the test of the load outcome
LogsCritical_nonopt(this_result, not_optimal) == not_optimal

\* the condition of line 225
LogsCritical(this_result, not_optimal) == this_result = "False" \/ not_optimal

\* lines 233-236
Message(not_optimal) ==
    IF not_optimal THEN "Model solution was non-optimal."
    ELSE "Could not load results into model instance."

\* line 238 builds a BackendWarning object from the message and drops it:
\* nothing is handed to exceptions.warn or to the warnings machinery
AfterBackendWarning(warned, message) == warned

\* backend_model.solutions.load_from(results) with the outcome it reports
LoadFrom(model, solution, this_result) ==
    IF this_result = "False" THEN model
    ELSE [n \in DOMAIN model |->
             IF model[n].ctype = "Var"
             THEN [model[n] EXCEPT !.values = [t \in model[n].index |-> solution[t]]]
             ELSE model[n]]

load_results ==
    /\ pc = "solved"
    /\ \E this_result \in {"True", "False", "None"} :
          LET not_optimal == Str(results_obj.termination) # "optimal" IN
             /\ backend_model' = LoadFrom(backend_model, results_obj.solution, this_result)
             /\ results_obj' = [results_obj EXCEPT !.load = this_result]
             /\ IF LogsCritical(this_result, not_optimal)
                THEN /\ critical_log' = critical_log \o
                           <<"Problem status:", "str(results.Problem)",
                             "Solver status:", "str(results.Solver)">>
                     /\ warnings' = AfterBackendWarning(warnings, Message(not_optimal))
                ELSE UNCHANGED <<critical_log, warnings>>
             /\ returned' = Str(results_obj.termination)
    /\ pc' = "loaded"
    /\ UNCHANGED <<data_vars, time_dtype, run_config, imask_config, i, raised,
                   solver_calls, results>>

(***************************************************************************)
(* get_result_array                                                        *)
(***************************************************************************)
InSeq(s, x) == \E j \in 1..Len(s) : s[j] = x

\* lines 252-253
get_dim_order(foreach) == SelectSeq(Dims, LAMBDA d : InSeq(foreach, d))

\* value of a registered expression rule at a tuple: the rules are pluggable;
\* this one counts the variable's active tuples that agree with t
RuleValue(model, t) ==
    Cardinality({u \in model[VarFamily].index :
                    \A d \in DOMAIN t : d \in DOMAIN u => u[d] = t[d]})

\* the value a component holds at one of its tuples
ValueAt(model, name, t) ==
    IF model[name].ctype = "Expression" /\ model[name].rule # N("initialize")
    THEN RuleValue(model, t)
    ELSE model[name].values[t]

\* util.get_var: the sparse values of a component scattered into a dense array
get_var(model, name, dims) ==
    [dims |-> dims,
     data |-> [t \in Tuples(SeqToSet(dims)) |->
                  IF t \in model[name].index THEN ValueAt(model, name, t) ELSE NaN]]

\* the dimensions of a component, for get_var called without dims
IndexDims(comp) ==
    SelectSeq(Dims, LAMBDA d : \E t \in comp.index : d \in DOMAIN t)

\* imask_config.<kind>[name].foreach
Foreach(name) == IF name = VarFamily THEN VarForeach ELSE ExprForeach

DataVarNames(dv) == {dv[j].name : j \in 1..Len(dv)}

\* lines 277-283: the parameters taken to be missing from the inputs
all_params(model, dv) ==
    {n \in DOMAIN model :
        /\ model[n].ctype = "Param"
        /\ n \notin DataVarNames(dv)
        /\ ~Contains(n, "objective_")
        /\ model[n].indexed}

RECURSIVE SetToSeq(_)
SetToSeq(S) ==
    IF S = {} THEN <<>>
    ELSE LET x == CHOOSE y \in S : TRUE IN <<x>> \o SetToSeq(S \ {x})

\* lines 287-291: model_data.update(additional_inputs)
Augmented(model, dv) ==
    LET names == SetToSeq(all_params(model, dv)) IN
       dv \o [j \in 1..Len(names) |->
                 [name |-> names[j], is_result |-> 0, operate_param |-> 0,
                  dims |-> IndexDims(model[names[j]])]]

get_result_array ==
    /\ pc = "loaded"
    /\ results' =
          [vars |-> [n \in {m \in DOMAIN backend_model :
                               backend_model[m].ctype \in {"Var", "Expression"}} |->
                        get_var(backend_model, n, get_dim_order(Foreach(n)))],
           time_dtype |-> "datetime64[ns]"]
    /\ data_vars' = Augmented(backend_model, data_vars)
    /\ pc' = "done"
    /\ UNCHANGED <<time_dtype, run_config, imask_config, backend_model, i, raised,
                   solver_calls, warnings, critical_log, results_obj, returned>>

Next ==
    \/ generate_model
    \/ solve_model
    \/ load_results
    \/ get_result_array

Spec == Init /\ [][Next]_vars

(***************************************************************************)
(* Properties                                                              *)
(***************************************************************************)
BuildSteps == {"build_sets", "build_params", "build_params_loop", "build_params_tail",
               "build_variables", "build_expressions", "build_constraints",
               "build_objective"}

\* the kind of declaration a step makes: 1 sets, 2 parameters, 3 variables,
\* 4 expressions, 5 constraints, 6 objective
Rank(step) ==
    CASE step = "build_sets" -> 1
      [] step \in {"build_params", "build_params_loop", "build_params_tail"} -> 2
      [] step = "build_variables" -> 3
      [] step = "build_expressions" -> 4
      [] step = "build_constraints" -> 5
      [] step = "build_objective" -> 6
      [] OTHER -> 0

Has(ctype) == \E n \in DOMAIN backend_model : backend_model[n].ctype = ctype
IsA(name, ctype) == hasattr(backend_model, name) /\ backend_model[name].ctype = ctype

SetsDeclared == \A j \in 1..Len(Dims) : IsA(N(Dims[j]), "Set")
ParamsDeclared ==
    /\ \A j \in 1..Len(data_vars) :
          IsInput(data_vars[j]) =>
             \/ IsA(data_vars[j].name, "Param")
             \/ IsA(<<"calliope_">> \o data_vars[j].name, "Param")
    /\ IsA(N("bigM"), "Param")
    /\ IsA(<<"objective_", "cost_class">>, "Param")
VarsDeclared == IsA(VarFamily, "Var")
ExpressionsDeclared ==
    \A j \in 1..Len(imask_config.expressions) :
       IsA(imask_config.expressions[j], "Expression")
ConstraintsDeclared ==
    \A j \in 1..Len(imask_config.constraints) :
       IsA(imask_config.constraints[j] \o <<"_constraint">>, "Constraint")

C1_Declared ==
    /\ Has("Param") => SetsDeclared
    /\ Has("Var") => SetsDeclared /\ ParamsDeclared
    /\ Has("Expression") => SetsDeclared /\ ParamsDeclared /\ VarsDeclared
    /\ Has("Constraint") =>
          SetsDeclared /\ ParamsDeclared /\ VarsDeclared /\ ExpressionsDeclared
    /\ Has("Objective") =>
          SetsDeclared /\ ParamsDeclared /\ VarsDeclared /\ ExpressionsDeclared
          /\ ConstraintsDeclared

C1_Step ==
    (pc \in BuildSteps /\ pc' \in BuildSteps) =>
        (Rank(pc') = Rank(pc) \/ Rank(pc') = Rank(pc) + 1)

\* C1: generate_model declares sets, then parameters, then variables, then
\* expressions, then constraints, then the objective: a component of a later
\* kind exists only when every component of the earlier kinds is declared, and
\* no step of an earlier kind follows a step of a later kind.
C1_DeclarationOrder == [][C1_Step]_vars /\ []C1_Declared

C1_Witness ==
    pc = "generated" /\ Has("Expression") /\ Has("Constraint") /\ Has("Objective")

\* C2: a constraint family without a registered rule makes the constraint build
\* step fail with a ConfigurationError; no constraint is declared for the family,
\* no model is returned and the solver is never invoked.
C2_ConfigurationError ==
    /\ raised.step = "build_constraints" =>
          /\ raised.kind = "ConfigurationError"
          /\ solver_calls = <<>>
    /\ \A j \in 1..Len(imask_config.constraints) :
          (imask_config.constraints[j] \o <<"_constraint_rule">>) \notin constraints =>
             /\ ~hasattr(backend_model, imask_config.constraints[j] \o <<"_constraint">>)
             /\ pc \notin {"build_objective", "finish", "generated", "solved",
                           "loaded", "done"}

AfterExpressions ==
    \/ pc \in {"build_constraints", "build_objective", "finish", "generated",
               "solved", "loaded", "done"}
    \/ raised.step \in {"build_constraints", "build_objective"}

\* C3: build_expressions raises nothing and declares every expression family
\* over exactly the tuples of its mask; a family without a registered rule is
\* zero at every active tuple, a family with a registered rule is declared
\* with that rule.
C3_ExpressionDefault ==
    /\ raised.step # "build_expressions"
    /\ AfterExpressions => ExpressionsDeclared
    /\ \A j \in 1..Len(imask_config.expressions) :
          LET f == imask_config.expressions[j] IN
             IsA(f, "Expression") =>
                /\ backend_model[f].index = imask_config.expr_mask
                /\ IF (f \o <<"_expression_rule">>) \in constraints
                   THEN backend_model[f].rule = f \o <<"_expression_rule">>
                   ELSE /\ backend_model[f].rule # f \o <<"_expression_rule">>
                        /\ \A t \in imask_config.expr_mask :
                              backend_model[f].values[t] = 0

C3_Witness ==
    /\ pc = "build_constraints"
    /\ IsA(N("cost_investment"), "Expression")
    /\ IsA(N("cost_var"), "Expression")
    /\ Cardinality(backend_model[N("cost_investment")].index) = 2

WarmstartWarnings ==
    {j \in 1..Len(warnings) : warnings[j][1] = "does not suport warmstart"}

\* C4: with a warmstart keyword and solver glpk or cbc, a warning is recorded,
\* warmstart is removed from the options passed on and the solver is invoked
\* exactly once; with any other solver warmstart reaches the solver unchanged
\* and no such warning is recorded.
C4_Warmstart ==
    /\ Len(solver_calls) <= 1
    /\ pc \in {"solved", "loaded", "done"} =>
          /\ Len(solver_calls) = 1
          /\ LET c == solver_calls[1] IN
                IF <<"warmstart", TRUE>> \in c.passed
                THEN IF c.solver \in {"glpk", "cbc"}
                     THEN /\ "warmstart" \notin Keys(c.kwargs)
                          /\ \E j \in WarmstartWarnings : warnings[j][2] = c.solver
                     ELSE /\ <<"warmstart", TRUE>> \in c.kwargs
                          /\ WarmstartWarnings = {}
                ELSE WarmstartWarnings = {}

C4_Witness ==
    /\ pc = "solved"
    /\ solver_calls[1].solver = "cbc"
    /\ <<"warmstart", TRUE>> \in solver_calls[1].passed
    /\ Len(warnings) = 1

\* C5: load_results returns the termination condition as a string and raises
\* nothing; critical log entries exist exactly when the termination is not
\* optimal or the solution load reported failure.
C5_LoadResults ==
    pc \in {"loaded", "done"} =>
       /\ returned = results_obj.termination[2]
       /\ raised.kind = "none"
       /\ (critical_log # <<>>) <=>
             (results_obj.termination[2] # "optimal" \/ results_obj.load = "False")
       /\ critical_log # <<>> =>
             /\ \E j \in 1..Len(critical_log) : critical_log[j] = "Problem status:"
             /\ \E j \in 1..Len(critical_log) : critical_log[j] = "Solver status:"

C5_Witness ==
    pc = "loaded" /\ returned = "infeasible" /\ critical_log # <<>>

\* C6: a non-optimal termination or a failed solution load is reported as a
\* warning carrying the matching message, and is never raised as an error.
C6_WarningEmitted ==
    (pc \in {"loaded", "done"}
     /\ (results_obj.termination[2] # "optimal" \/ results_obj.load = "False")) =>
       /\ raised.kind = "none"
       /\ \E j \in 1..Len(warnings) :
             warnings[j] = <<IF results_obj.termination[2] # "optimal"
                             THEN "Model solution was non-optimal."
                             ELSE "Could not load results into model instance.">>

Position(d) == CHOOSE j \in 1..Len(Dims) : Dims[j] = d

C8_Kept ==
    pc \in BuildSteps =>
       \A n \in DOMAIN backend_model :
          /\ n \in DOMAIN backend_model'
          /\ backend_model'[n].ctype = backend_model[n].ctype
          /\ backend_model'[n].origin = backend_model[n].origin

C8_Renamed ==
    (/\ pc = "build_params_loop" /\ i <= Len(data_vars)
     /\ IsInput(data_vars[i]) /\ hasattr(backend_model, data_vars[i].name)) =>
          /\ hasattr(backend_model', <<"calliope_">> \o data_vars[i].name)
          /\ backend_model'[<<"calliope_">> \o data_vars[i].name].ctype = "Param"

\* C8: a data variable whose name is already an attribute of the model is
\* declared under the name prefixed with calliope_, and no attribute that
\* exists at some point of the build is overwritten by a later declaration.
C8_NoOverwrite == [][C8_Kept /\ C8_Renamed]_vars

C9_Added ==
    (pc = "loaded" /\ pc' = "done") =>
       /\ Len(data_vars') >= Len(data_vars)
       /\ \A j \in 1..Len(data_vars) : data_vars'[j] = data_vars[j]
       /\ \A j \in (Len(data_vars) + 1)..Len(data_vars') :
             /\ data_vars'[j].is_result = 0
             /\ backend_model[data_vars'[j].name].ctype = "Param"
             /\ backend_model[data_vars'[j].name].indexed
             /\ backend_model[data_vars'[j].name].origin # "input"

\* C9: get_result_array adds to the dataset exactly the indexed, non-objective
\* parameters that did not come from the input; each added variable has
\* is_result = 0, no parameter built from an input data variable is added, and
\* the data variables already present are unchanged.
C9_OnlyBackendParams == [][C9_Added]_vars

\* C10: when generate_model ends, by returning a model or by raising, the time
\* data of the dataset is back in timestamp encoding.
C10_TimeRestored ==
    pc \in {"generated", "raised"} => time_dtype = "datetime64[ns]"
====
